---- MODULE Spec2Model ----
(***************************************************************************)
(* TaskFlow API (src/main.py): a CRUD service over one relational table    *)
(* "tasks".  The table is the state; every HTTP handler is an operation.   *)
(*                                                                         *)
(* Two specifications are given over the same state:                       *)
(*   Spec      - requests are served one after the other; every action is  *)
(*               a whole handler (query, mutation, commit, refresh).       *)
(*   SpecConc  - requests overlap.  A handler that reads a row and later   *)
(*               commits (update, toggle, delete) is two steps, the SELECT *)
(*               of get_task_by_id and the flush+COMMIT of db.commit();    *)
(*               each request has its own Session (get_db).                *)
(*                                                                         *)
(* Modelling conventions                                                   *)
(*   - Python None / SQL NULL is the empty tuple, a present value v is     *)
(*     <<v>> (None, Some).  A request field that was not sent at all is    *)
(*     Unset, a field that was sent is Given(optional value).              *)
(*     Every column of a row holds an optional value; NOT NULL is enforced *)
(*     by the statements, as the database does.                            *)
(*   - uuid.uuid4 is modelled as a generator of fresh identifiers: ids are *)
(*     handed out in increasing order and never twice.                     *)
(*   - func.now() is the start time of the database transaction; the       *)
(*     clock is strictly later for every later transaction.                *)
(***************************************************************************)
EXTENDS Integers, Sequences, FiniteSets, TLC

VARIABLES tasks,    \* the table: id -> row (TaskModel)
          clock,    \* last value handed out by func.now()
          nextId,   \* next identifier uuid4 will produce
          resp,     \* the last request served whole and its response
          before,   \* the table as it was when that request arrived
          sess      \* SpecConc: per request, its Session state

vars == <<tasks, clock, nextId, resp, before, sess>>

----------------------------------------------------------------------------
(* Bounds of the model *)

MaxTasks == 2
MaxClock == 3
NumRequests == 2

(* Program constants *)

MIN_TITLE_LENGTH == 3
MAX_TITLE_LENGTH == 100
MAX_DESCRIPTION_LENGTH == 500

HTTP_200_OK == 200
HTTP_201_CREATED == 201
HTTP_204_NO_CONTENT == 204
HTTP_404_NOT_FOUND == 404
HTTP_422_UNPROCESSABLE_ENTITY == 422
HTTP_500_INTERNAL_SERVER_ERROR == 500

----------------------------------------------------------------------------
(* Optional values and request fields *)

None == <<>>
Some(v) == <<v>>
Unset == <<>>
Given(opt) == <<opt>>

RECURSIVE Rep(_)
Rep(n) == IF n = 0 THEN ""
          ELSE IF n % 2 = 0 THEN LET h == Rep(n \div 2) IN h \o h
          ELSE "x" \o Rep(n - 1)

IDs == 1..MaxTasks
Requests == 1..NumRequests

(* Strings a client may send: around each length limit *)
TitleStrings == {Rep(MIN_TITLE_LENGTH - 1), Rep(MIN_TITLE_LENGTH),
                 Rep(MAX_TITLE_LENGTH), Rep(MAX_TITLE_LENGTH + 1)}
DescriptionStrings == {Rep(MAX_DESCRIPTION_LENGTH), Rep(MAX_DESCRIPTION_LENGTH + 1)}

TitleArgs == {Unset, Given(None)} \cup {Given(Some(t)) : t \in TitleStrings}
DescriptionArgs == {Unset, Given(None)} \cup {Given(Some(d)) : d \in DescriptionStrings}
CompletedArgs == {Unset, Given(None), Given(Some(TRUE)), Given(Some(FALSE))}

(* Request bodies of POST and PUT *)
CreateBodies == [title : TitleArgs, description : DescriptionArgs]
UpdateBodies == [title : TitleArgs, description : DescriptionArgs,
                 is_completed : CompletedArgs]

(* Query parameter of GET /api/v1/tasks/ *)
CompletedFilters == {None, Some(TRUE), Some(FALSE)}

----------------------------------------------------------------------------
(* Pydantic models *)

\* TaskCreate: title required str 3..100, description optional str <= 500
TaskCreate(body) ==
    /\ body.title # Unset
    /\ body.title[1] # None
    /\ Len(body.title[1][1]) >= MIN_TITLE_LENGTH
    /\ Len(body.title[1][1]) <= MAX_TITLE_LENGTH
    /\ (body.description # Unset /\ body.description[1] # None)
          => Len(body.description[1][1]) <= MAX_DESCRIPTION_LENGTH

\* TaskUpdate whose title is a plain Optional[str] without Field limits
TaskUpdateUnboundedTitle(body) ==
    (body.description # Unset /\ body.description[1] # None)
        => Len(body.description[1][1]) <= MAX_DESCRIPTION_LENGTH

\* TaskUpdate: every field Optional with default None; the length
\* constraints apply to a string, None passes
TaskUpdate(body) ==
    /\ (body.title # Unset /\ body.title[1] # None)
          => /\ Len(body.title[1][1]) >= MIN_TITLE_LENGTH
             /\ Len(body.title[1][1]) <= MAX_TITLE_LENGTH
    /\ (body.description # Unset /\ body.description[1] # None)
          => Len(body.description[1][1]) <= MAX_DESCRIPTION_LENGTH

\* model_dump(exclude_unset=True): the names of the fields that were sent
update_data(body) ==
    {f \in {"title", "description", "is_completed"} : body[f] # Unset}

\* Task.model_validate(row): the response representation of a row
Task(id, row) ==
    [id |-> id, title |-> row.title, description |-> row.description,
     is_completed |-> row.is_completed,
     created_at |-> row.created_at, updated_at |-> row.updated_at]

----------------------------------------------------------------------------
(* The table and the statements the ORM emits *)

\* created_at with a default evaluated once when the module is loaded
TaskModelLoadTimeDefault(task_data, now) ==
    [title |-> task_data.title[1],
     description |-> IF task_data.description = Unset THEN None
                     ELSE task_data.description[1],
     is_completed |-> Some(FALSE),
     created_at |-> 0,
     updated_at |-> now]

\* TaskModel(...) + INSERT: is_completed False, both timestamps server_default now()
TaskModel(task_data, now) ==
    [title |-> task_data.title[1],
     description |-> IF task_data.description = Unset THEN None
                     ELSE task_data.description[1],
     is_completed |-> Some(FALSE),
     created_at |-> now,
     updated_at |-> now]

\* the query without its .filter(): the first row of the table, if any
get_task_by_id_unfiltered(db, task_id) ==
    IF DOMAIN db # {} THEN Some(db[CHOOSE i \in DOMAIN db : \A j \in DOMAIN db : i <= j])
    ELSE None

\* db.query(TaskModel).filter(TaskModel.id == task_id).first()
get_task_by_id(db, task_id) ==
    IF task_id \in DOMAIN db THEN Some(db[task_id]) ELSE None

\* The mapped attributes of a loaded object that a handler assigns
Loaded(row) ==
    [title |-> row.title, description |-> row.description,
     is_completed |-> row.is_completed]

\* model_dump() without exclude_unset: fields not sent are dumped as None
SetAttrsReplace(obj, body) ==
    [f \in {"title", "description", "is_completed"} |->
        IF f \in update_data(body) THEN body[f][1] ELSE None]

\* for field, value in update_data.items(): setattr(task, field, value)
SetAttrs(obj, body) ==
    [f \in {"title", "description", "is_completed"} |->
        IF f \in update_data(body) THEN body[f][1] ELSE obj[f]]

\* task.is_completed = True
ToggleAttrsComplete(obj) ==
    [obj EXCEPT !.is_completed = Some(TRUE)]

\* task.is_completed = not task.is_completed
ToggleAttrs(obj) ==
    [obj EXCEPT !.is_completed = Some(~obj.is_completed[1])]

\* db.add(db_task); db.commit()
Insert(db, id, row) ==
    [i \in DOMAIN db \cup {id} |-> IF i = id THEN row ELSE db[i]]

\* db.delete(task) that is never committed
DeleteUncommitted(db, id) == db

\* db.delete(task); db.commit(): DELETE FROM tasks WHERE id = :id
Delete(db, id) ==
    [i \in DOMAIN db \ {id} |-> db[i]]

\* an UPDATE that leaves updated_at alone
UpdateKeepsTimestamp(db, id, snap, obj, now) ==
    LET changed == {f \in {"title", "description", "is_completed"} : obj[f] # Loaded(snap)[f]}
    IN  IF id \notin DOMAIN db
        THEN [err |-> "StaleDataError", db |-> db]
        ELSE IF \E f \in changed \cap {"title", "is_completed"} : obj[f] = None
        THEN [err |-> "IntegrityError", db |-> db]
        ELSE [err |-> "none",
              db |-> [db EXCEPT ![id] =
                        [title |-> IF "title" \in changed THEN obj.title ELSE @.title,
                         description |-> IF "description" \in changed
                                         THEN obj.description ELSE @.description,
                         is_completed |-> IF "is_completed" \in changed
                                          THEN obj.is_completed ELSE @.is_completed,
                         created_at |-> @.created_at,
                         updated_at |-> @.updated_at]]]

\* db.merge(task): writes the object back whole, inserting it when its row
\* is no longer there
UpdateUpsert(db, id, snap, obj, now) ==
    IF \E f \in {"title", "is_completed"} : obj[f] = None
    THEN [err |-> "IntegrityError", db |-> db]
    ELSE [err |-> "none",
          db |-> [i \in DOMAIN db \cup {id} |->
                    IF i = id
                    THEN [title |-> obj.title, description |-> obj.description,
                          is_completed |-> obj.is_completed,
                          created_at |-> snap.created_at, updated_at |-> now]
                    ELSE db[i]]]

\* db.commit() of a modified object: UPDATE tasks SET <changed columns>,
\* updated_at = now() WHERE id = :id.  Only attributes whose value differs
\* from the loaded one are written.  No matching row: StaleDataError.
\* NULL into a nullable=False column: IntegrityError.  Either way the
\* transaction is rolled back.
Update(db, id, snap, obj, now) ==
    LET old == Loaded(snap)
        changed == {f \in {"title", "description", "is_completed"} : obj[f] # old[f]}
    IN  IF id \notin DOMAIN db
        THEN [err |-> "StaleDataError", db |-> db]
        ELSE IF \E f \in changed \cap {"title", "is_completed"} : obj[f] = None
        THEN [err |-> "IntegrityError", db |-> db]
        ELSE [err |-> "none",
              db |-> [db EXCEPT ![id] =
                        [title |-> IF "title" \in changed THEN obj.title ELSE @.title,
                         description |-> IF "description" \in changed
                                         THEN obj.description ELSE @.description,
                         is_completed |-> IF "is_completed" \in changed
                                          THEN obj.is_completed ELSE @.is_completed,
                         created_at |-> @.created_at,
                         updated_at |-> now]]]

\* the filter applied under "if completed:" instead of "is not None"
FilterIfTruthy(db, completed) ==
    {i \in DOMAIN db : completed # Some(TRUE) \/ db[i].is_completed = completed}

\* query.filter(TaskModel.is_completed == completed) when completed is not None
Filter(db, completed) ==
    {i \in DOMAIN db : completed = None \/ db[i].is_completed = completed}

\* query.order_by(TaskModel.created_at.desc()).all()
RECURSIVE OrderByCreatedAtDesc(_, _)
OrderByCreatedAtDesc(db, ids) ==
    IF ids = {} THEN <<>>
    ELSE LET first == CHOOSE i \in ids :
                         \A j \in ids : db[j].created_at <= db[i].created_at
         IN  <<Task(first, db[first])>> \o OrderByCreatedAtDesc(db, ids \ {first})

----------------------------------------------------------------------------
(* Responses *)

Response(op, id, arg, status, body) ==
    [op |-> op, id |-> id, arg |-> arg, status |-> status, body |-> body]

\* raise HTTPException(status_code=404, detail=f"Task with id {task_id} not found")
NotFound(op, id) == Response(op, id, None, HTTP_404_NOT_FOUND, <<>>)

\* request body rejected by the pydantic model before the handler runs
ValidationError(op, id) == Response(op, id, None, HTTP_422_UNPROCESSABLE_ENTITY, <<>>)

\* GET /api/v1/tasks/{task_id} as a function of the table
get_task_result(db, task_id) ==
    LET task == get_task_by_id(db, task_id)
    IN  IF task = None THEN NotFound("get", task_id)
        ELSE Response("get", task_id, None, HTTP_200_OK, <<Task(task_id, task[1])>>)

\* GET /api/v1/tasks/?completed= as a function of the table
get_all_tasks_result(db, completed) ==
    Response("list", 0, completed, HTTP_200_OK,
             OrderByCreatedAtDesc(db, Filter(db, completed)))

----------------------------------------------------------------------------
(* Initial state: empty table, no request served, every Session unused *)

IdleSession == [pc |-> "idle", op |-> "none", id |-> 0, body |-> None,
                snap |-> None, now |-> 0, status |-> 0, err |-> "none"]

Init ==
    /\ tasks = [i \in {} |-> 0]
    /\ clock = 0
    /\ nextId = 1
    /\ resp = Response("none", 0, None, 0, <<>>)
    /\ before = tasks
    /\ sess = [r \in Requests |-> IdleSession]

----------------------------------------------------------------------------
(* Spec: handlers served one at a time *)

\* GET /api/v1/tasks/
get_all_tasks(completed) ==
    /\ before' = tasks
    /\ resp' = get_all_tasks_result(tasks, completed)
    /\ UNCHANGED <<tasks, clock, nextId, sess>>

\* POST /api/v1/tasks/
create_task(task_data) ==
    /\ before' = tasks
    /\ IF ~TaskCreate(task_data)
       THEN /\ resp' = ValidationError("create", 0)
            /\ UNCHANGED <<tasks, clock, nextId, sess>>
       ELSE /\ nextId <= MaxTasks
            /\ clock < MaxClock
            /\ LET now == clock + 1
                   id == nextId
                   db_task == TaskModel(task_data, now)
               IN  /\ tasks' = Insert(tasks, id, db_task)
                   /\ resp' = Response("create", id, task_data, HTTP_201_CREATED,
                                       <<Task(id, tasks'[id])>>)
                   /\ clock' = now
                   /\ nextId' = nextId + 1
            /\ UNCHANGED sess

\* GET /api/v1/tasks/{task_id}
get_task(task_id) ==
    /\ before' = tasks
    /\ resp' = get_task_result(tasks, task_id)
    /\ UNCHANGED <<tasks, clock, nextId, sess>>

\* PUT /api/v1/tasks/{task_id}
update_task(task_id, task_data) ==
    /\ before' = tasks
    /\ IF ~TaskUpdate(task_data)
       THEN /\ resp' = ValidationError("update", task_id)
            /\ UNCHANGED <<tasks, clock, nextId, sess>>
       ELSE LET task == get_task_by_id(tasks, task_id)
            IN  IF task = None
                THEN /\ resp' = NotFound("update", task_id)
                     /\ UNCHANGED <<tasks, clock, nextId, sess>>
                ELSE /\ clock < MaxClock
                     /\ LET now == clock + 1
                            obj == SetAttrs(Loaded(task[1]), task_data)
                            res == Update(tasks, task_id, task[1], obj, now)
                        IN  /\ tasks' = res.db
                            /\ clock' = now
                            /\ resp' = IF res.err = "none"
                                       THEN Response("update", task_id, task_data, HTTP_200_OK,
                                                     <<Task(task_id, res.db[task_id])>>)
                                       ELSE Response("update", task_id, task_data,
                                                     HTTP_500_INTERNAL_SERVER_ERROR, <<>>)
                     /\ UNCHANGED <<nextId, sess>>

\* PATCH /api/v1/tasks/{task_id}
toggle_task_status(task_id) ==
    /\ before' = tasks
    /\ LET task == get_task_by_id(tasks, task_id)
       IN  IF task = None
           THEN /\ resp' = NotFound("toggle", task_id)
                /\ UNCHANGED <<tasks, clock, nextId, sess>>
           ELSE /\ clock < MaxClock
                /\ LET now == clock + 1
                       obj == ToggleAttrs(Loaded(task[1]))
                       res == Update(tasks, task_id, task[1], obj, now)
                   IN  /\ tasks' = res.db
                       /\ clock' = now
                       /\ resp' = Response("toggle", task_id, None, HTTP_200_OK,
                                           <<Task(task_id, res.db[task_id])>>)
                /\ UNCHANGED <<nextId, sess>>

\* DELETE /api/v1/tasks/{task_id}
delete_task(task_id) ==
    /\ before' = tasks
    /\ LET task == get_task_by_id(tasks, task_id)
       IN  IF task = None
           THEN /\ resp' = NotFound("delete", task_id)
                /\ UNCHANGED <<tasks, clock, nextId, sess>>
           ELSE /\ tasks' = Delete(tasks, task_id)
                /\ resp' = Response("delete", task_id, None, HTTP_204_NO_CONTENT, <<>>)
                /\ UNCHANGED <<clock, nextId, sess>>

Next ==
    \/ \E completed \in CompletedFilters : get_all_tasks(completed)
    \/ \E task_data \in CreateBodies : create_task(task_data)
    \/ \E task_id \in IDs : get_task(task_id)
    \/ \E task_id \in IDs, task_data \in UpdateBodies : update_task(task_id, task_data)
    \/ \E task_id \in IDs : toggle_task_status(task_id)
    \/ \E task_id \in IDs : delete_task(task_id)

Spec == Init /\ [][Next]_vars

----------------------------------------------------------------------------
(* SpecConc: overlapping requests, each with its own Session.  A request   *)
(* is idle (not yet sent), loaded (its SELECT has run and it holds the     *)
(* object it read) or done.                                                *)

\* Bodies sent while requests overlap: POST with a title only, PUT with at
\* most one field
ConcurrentCreateBodies ==
    {b \in CreateBodies : b.description = Unset /\ b.title # Unset /\ b.title # Given(None)}
ConcurrentUpdateBodies == {b \in UpdateBodies : Cardinality(update_data(b)) <= 1}

Done(s, status, err) == [s EXCEPT !.pc = "done", !.status = status, !.err = err]

\* update_task up to and including task = get_task_by_id(db, task_id)
update_task_read(r, task_id, task_data) ==
    /\ sess[r].pc = "idle"
    /\ LET task == get_task_by_id(tasks, task_id)
           s == [IdleSession EXCEPT !.op = "update", !.id = task_id]
       IN  IF ~TaskUpdate(task_data)
           THEN /\ sess' = [sess EXCEPT ![r] = Done(s, HTTP_422_UNPROCESSABLE_ENTITY, "none")]
                /\ UNCHANGED clock
           ELSE IF task = None
           THEN /\ sess' = [sess EXCEPT ![r] = Done(s, HTTP_404_NOT_FOUND, "none")]
                /\ UNCHANGED clock
           ELSE /\ clock < MaxClock
                /\ clock' = clock + 1
                /\ sess' = [sess EXCEPT ![r] =
                              [s EXCEPT !.pc = "loaded", !.body = Some(task_data),
                                        !.snap = task, !.now = clock + 1]]
    /\ UNCHANGED <<tasks, nextId, resp, before>>

\* update_task from update_data = ... to db.commit()
update_task_commit(r) ==
    /\ sess[r].pc = "loaded"
    /\ sess[r].op = "update"
    /\ LET s == sess[r]
           obj == SetAttrs(Loaded(s.snap[1]), s.body[1])
           res == Update(tasks, s.id, s.snap[1], obj, s.now)
       IN  /\ tasks' = res.db
           /\ sess' = [sess EXCEPT ![r] =
                         Done(s, IF res.err = "none" THEN HTTP_200_OK
                                 ELSE HTTP_500_INTERNAL_SERVER_ERROR, res.err)]
    /\ UNCHANGED <<clock, nextId, resp, before>>

\* toggle_task_status up to and including task = get_task_by_id(db, task_id)
toggle_task_status_read(r, task_id) ==
    /\ sess[r].pc = "idle"
    /\ LET task == get_task_by_id(tasks, task_id)
           s == [IdleSession EXCEPT !.op = "toggle", !.id = task_id]
       IN  IF task = None
           THEN /\ sess' = [sess EXCEPT ![r] = Done(s, HTTP_404_NOT_FOUND, "none")]
                /\ UNCHANGED clock
           ELSE /\ clock < MaxClock
                /\ clock' = clock + 1
                /\ sess' = [sess EXCEPT ![r] =
                              [s EXCEPT !.pc = "loaded", !.snap = task, !.now = clock + 1]]
    /\ UNCHANGED <<tasks, nextId, resp, before>>

\* toggle_task_status from task.is_completed = not task.is_completed to db.commit()
toggle_task_status_commit(r) ==
    /\ sess[r].pc = "loaded"
    /\ sess[r].op = "toggle"
    /\ LET s == sess[r]
           obj == ToggleAttrs(Loaded(s.snap[1]))
           res == Update(tasks, s.id, s.snap[1], obj, s.now)
       IN  /\ tasks' = res.db
           /\ sess' = [sess EXCEPT ![r] =
                         Done(s, IF res.err = "none" THEN HTTP_200_OK
                                 ELSE HTTP_500_INTERNAL_SERVER_ERROR, res.err)]
    /\ UNCHANGED <<clock, nextId, resp, before>>

\* delete_task up to and including task = get_task_by_id(db, task_id)
delete_task_read(r, task_id) ==
    /\ sess[r].pc = "idle"
    /\ LET task == get_task_by_id(tasks, task_id)
           s == [IdleSession EXCEPT !.op = "delete", !.id = task_id]
       IN  IF task = None
           THEN sess' = [sess EXCEPT ![r] = Done(s, HTTP_404_NOT_FOUND, "none")]
           ELSE sess' = [sess EXCEPT ![r] = [s EXCEPT !.pc = "loaded", !.snap = task]]
    /\ UNCHANGED <<tasks, clock, nextId, resp, before>>

\* delete_task: db.delete(task); db.commit().  A DELETE that matches no row
\* is only warned about by the ORM, the request still answers 204.
delete_task_commit(r) ==
    /\ sess[r].pc = "loaded"
    /\ sess[r].op = "delete"
    /\ tasks' = Delete(tasks, sess[r].id)
    /\ sess' = [sess EXCEPT ![r] = Done(sess[r], HTTP_204_NO_CONTENT, "none")]
    /\ UNCHANGED <<clock, nextId, resp, before>>

NextConc ==
    \/ \E task_data \in ConcurrentCreateBodies : create_task(task_data)
    \/ \E r \in Requests, task_id \in IDs, task_data \in ConcurrentUpdateBodies :
          update_task_read(r, task_id, task_data)
    \/ \E r \in Requests : update_task_commit(r)
    \/ \E r \in Requests, task_id \in IDs : toggle_task_status_read(r, task_id)
    \/ \E r \in Requests : toggle_task_status_commit(r)
    \/ \E r \in Requests, task_id \in IDs : delete_task_read(r, task_id)
    \/ \E r \in Requests : delete_task_commit(r)

SpecConc == Init /\ [][NextConc]_vars

----------------------------------------------------------------------------
(* Properties of the handlers served one at a time (Spec) *)

Fields == {"title", "description", "is_completed"}
ByIdOps == {"get", "update", "toggle", "delete"}
Succeeded(op, status) == resp.op = op /\ resp.status = status
Live(db) == DOMAIN db
OthersUnchanged(id) ==
    /\ Live(tasks) = Live(before)
    /\ \A i \in Live(tasks) \ {id} : tasks[i] = before[i]
\* an identifier uuid4 has handed out whose row is no longer in the table
Gone(i) == i < nextId /\ i \notin Live(tasks)

\* C1: a successful update is a merge-patch: every field sent takes the sent
\* value, every field not sent (and id, created_at) keeps its value, and no
\* other task changes.
C1_MergePatch ==
    Succeeded("update", HTTP_200_OK) =>
        /\ resp.id \in Live(before)
        /\ OthersUnchanged(resp.id)
        /\ \A f \in Fields :
              tasks[resp.id][f] = IF resp.arg[f] # Unset THEN resp.arg[f][1]
                                  ELSE before[resp.id][f]
        /\ tasks[resp.id].created_at = before[resp.id].created_at

C1_Witness ==
    /\ Succeeded("update", HTTP_200_OK)
    /\ update_data(resp.arg) = {"title"}
    /\ tasks[resp.id].title # before[resp.id].title
    /\ tasks[resp.id].description # None
    /\ Cardinality(Live(tasks)) = 2

\* C2: get, update, toggle and delete on an identifier that no live task has
\* answer 404 and leave the table exactly as it was (a request counts once
\* it has passed body validation and reached its handler).
C2_AbsentIdNotFound ==
    (resp.op \in ByIdOps /\ resp.id \notin Live(before)
        /\ resp.status # HTTP_422_UNPROCESSABLE_ENTITY) =>
        /\ resp.status = HTTP_404_NOT_FOUND
        /\ tasks = before

C2_Witness ==
    /\ resp.op = "update"
    /\ resp.status = HTTP_404_NOT_FOUND
    /\ resp.id \notin Live(tasks)
    /\ Live(tasks) # {}

\* C4: right after a successful create, get on the returned id succeeds and
\* shows the title and description that were sent, is_completed false and
\* created_at = updated_at, whatever else is in the table.
C4_CreateThenGet ==
    Succeeded("create", HTTP_201_CREATED) =>
        LET got == get_task_result(tasks, resp.body[1].id)
        IN  /\ got.status = HTTP_200_OK
            /\ got.body[1].title = resp.arg.title[1]
            /\ got.body[1].description =
                  (IF resp.arg.description = Unset THEN None ELSE resp.arg.description[1])
            /\ got.body[1].is_completed = Some(FALSE)
            /\ got.body[1].created_at = got.body[1].updated_at

C4_Witness ==
    /\ Succeeded("create", HTTP_201_CREATED)
    /\ resp.arg.description = Given(Some(Rep(MAX_DESCRIPTION_LENGTH)))
    /\ Cardinality(Live(tasks)) = 2
    /\ \E i \in Live(before) : before[i].updated_at # before[i].created_at

\* C5 (each call): a successful toggle negates is_completed of its task and
\* changes no other task.
ToggleNegates ==
    Succeeded("toggle", HTTP_200_OK) =>
        /\ resp.id \in Live(before)
        /\ OthersUnchanged(resp.id)
        /\ tasks[resp.id].is_completed = Some(~before[resp.id].is_completed[1])

\* C5 (two calls): a successful toggle that directly follows a successful
\* toggle of the same id restores the value from before the first one.
ToggleTwiceRestores ==
    (/\ Succeeded("toggle", HTTP_200_OK)
     /\ resp'.op = "toggle" /\ resp'.status = HTTP_200_OK
     /\ resp'.id = resp.id
     /\ clock' # clock) =>
        tasks'[resp.id].is_completed = before[resp.id].is_completed

\* C5: each successful toggle negates is_completed and changes no other task;
\* two consecutive successful toggles of one id restore the original value.
C5_Toggle == []ToggleNegates /\ [][ToggleTwiceRestores]_vars

C5_Witness ==
    /\ Succeeded("toggle", HTTP_200_OK)
    /\ tasks[resp.id].is_completed = Some(FALSE)
    /\ before[resp.id].is_completed = Some(TRUE)
    /\ before[resp.id].updated_at = tasks[resp.id].updated_at - 1
    /\ before[resp.id].updated_at # before[resp.id].created_at

\* C6 (the delete itself): a successful delete removes exactly its task.
DeleteRemovesOne ==
    Succeeded("delete", HTTP_204_NO_CONTENT) =>
        /\ resp.id \in Live(before)
        /\ Live(tasks) = Live(before) \ {resp.id}
        /\ \A i \in Live(tasks) : tasks[i] = before[i]

\* C6 (afterwards): a request on a deleted id answers 404.
DeletedIsNotFound ==
    (resp.op \in ByIdOps /\ resp.id < nextId /\ resp.id \notin Live(before)
        /\ resp.status # HTTP_422_UNPROCESSABLE_ENTITY) =>
        /\ resp.status = HTTP_404_NOT_FOUND
        /\ Gone(resp.id)

\* C6 (for ever): no operation brings a deleted id back.
StaysGone == \A i \in IDs : Gone(i) => Gone(i)'

\* C6: after a successful delete the task is gone for good: any later get,
\* update, toggle or delete on the id answers 404, and the delete removed
\* exactly that one task.
C6_DeletePermanent ==
    [](DeleteRemovesOne /\ DeletedIsNotFound) /\ [][StaysGone]_vars

C6_Witness ==
    /\ resp.op = "get"
    /\ resp.status = HTTP_404_NOT_FOUND
    /\ Gone(resp.id)
    /\ \E i \in Live(tasks) : i > resp.id

\* C7: list with filter b returns exactly the live tasks whose is_completed
\* is b, each once; list without a filter returns every live task, each once.
C7_ListExact ==
    resp.op = "list" =>
        LET wanted == {i \in Live(tasks) :
                          resp.arg = None \/ tasks[i].is_completed = resp.arg}
        IN  /\ {resp.body[k] : k \in 1..Len(resp.body)} =
                   {Task(i, tasks[i]) : i \in wanted}
            /\ Len(resp.body) = Cardinality(wanted)

C7_Witness ==
    /\ resp.op = "list"
    /\ resp.arg = Some(FALSE)
    /\ Len(resp.body) = 1
    /\ Cardinality(Live(tasks)) = 2

\* C8: every stored task has a non-null title of 3 to 100 characters and a
\* description that is null or at most 500 characters long.
C8_TextBounds ==
    \A i \in Live(tasks) :
        /\ tasks[i].title # None
        /\ Len(tasks[i].title[1]) >= MIN_TITLE_LENGTH
        /\ Len(tasks[i].title[1]) <= MAX_TITLE_LENGTH
        /\ (tasks[i].description # None =>
               Len(tasks[i].description[1]) <= MAX_DESCRIPTION_LENGTH)

\* an update that sent title explicitly as null was served
C8_Witness ==
    /\ resp.op = "update"
    /\ resp.status = HTTP_500_INTERNAL_SERVER_ERROR
    /\ resp.arg.title = Given(None)
    /\ resp.id \in Live(tasks)
    /\ \E i \in Live(tasks) : tasks[i].description = Some(Rep(MAX_DESCRIPTION_LENGTH))

\* C9: a successful update or toggle leaves updated_at strictly greater than
\* before the call and created_at unchanged; updated_at >= created_at for
\* every task in every state.
C9_UpdatedAt ==
    /\ \A i \in Live(tasks) : tasks[i].updated_at >= tasks[i].created_at
    /\ (resp.op \in {"update", "toggle"} /\ resp.status = HTTP_200_OK) =>
          /\ resp.id \in Live(before) \cap Live(tasks)
          /\ tasks[resp.id].updated_at > before[resp.id].updated_at
          /\ tasks[resp.id].created_at = before[resp.id].created_at

C9_Witness ==
    /\ Succeeded("update", HTTP_200_OK)
    /\ update_data(resp.arg) = {}
    /\ before[resp.id].updated_at > before[resp.id].created_at

----------------------------------------------------------------------------
(* Properties of overlapping requests (SpecConc) *)

Finished(r, op, status) ==
    sess[r].pc = "done" /\ sess[r].op = op /\ sess[r].status = status

\* C3: two successful toggles of one task, in whatever order their reads and
\* commits interleave, leave is_completed as it was before the first of them
\* (no toggle is lost).
C3_NoLostToggle ==
    \A r1, r2 \in Requests :
        (/\ r1 # r2
         /\ Finished(r1, "toggle", HTTP_200_OK)
         /\ Finished(r2, "toggle", HTTP_200_OK)
         /\ sess[r1].id = sess[r2].id
         /\ sess[r1].now < sess[r2].now
         \* r2 read what r1 read, or what r1 wrote
         /\ sess[r2].snap[1].updated_at \in {sess[r1].snap[1].updated_at, sess[r1].now}
         \* nothing was written after the two
         /\ sess[r1].id \in Live(tasks)
         /\ tasks[sess[r1].id].updated_at \in {sess[r1].now, sess[r2].now}) =>
            tasks[sess[r1].id].is_completed = sess[r1].snap[1].is_completed

\* an update or toggle that read its row commits after the row was deleted
LateWrite(r) ==
    /\ sess[r].pc = "loaded"
    /\ sess[r].op \in {"update", "toggle"}
    /\ sess[r].id \notin Live(tasks)
    /\ sess'[r].pc = "done"

DeletedStaysDeleted ==
    \A r \in Requests :
        Finished(r, "delete", HTTP_204_NO_CONTENT) => sess[r].id \notin Live(tasks)

\* C10: when a delete commits between the read and the commit of an update or
\* toggle of the same id, the task is absent after both (the late writer
\* neither re-creates it nor leaves a partial row) and no other task changes.
C10_DeleteNotUndone ==
    []DeletedStaysDeleted
    /\ [][\A r \in Requests : LateWrite(r) => tasks' = tasks]_vars

C10_Witness ==
    \E w, d \in Requests :
        /\ sess[w].pc = "done" /\ sess[w].op \in {"update", "toggle"}
        /\ sess[w].err = "StaleDataError"
        /\ Finished(d, "delete", HTTP_204_NO_CONTENT)
        /\ sess[d].id = sess[w].id
        /\ sess[w].id \notin Live(tasks)
        /\ Live(tasks) # {}

TypeOK ==
    /\ DOMAIN tasks \subseteq IDs
    /\ clock \in 0..MaxClock
    /\ nextId \in 1..(MaxTasks + 1)
====
